---- MODULE Spec2Model ----
(***************************************************************************)
(* A model of the plyfile package (ply.go): the header reader and parser,  *)
(* the element layout arithmetic, and the ElementReader state machine with *)
(* its record decoder.                                                      *)
(*                                                                          *)
(* A Go string is a sequence of one-character strings; a byte of the body  *)
(* is a number in 0..255; a Go scalar value is the pair of its Go type and *)
(* the bytes of its little-endian storage, which is what memcpy writes.    *)
(***************************************************************************)
EXTENDS Integers, Sequences, FiniteSets, TLC

VARIABLES
    text,       \* the bytes of the source from its start: the header text and what follows
    file,       \* the shared *os.File: [closed, pos, size]
    headerStr,  \* PlyFile.headerStr
    header,     \* PlyFile.header: [Format, Comment, offset, Elements]
    stage,      \* where the program is: "readHeader", "parseHeader", "opened", "failed", "panic"
    readers,    \* the ElementReaders handed out so far, by element name (SpecParse)
    reader,     \* the ElementReader under test: [pos, offset, element] (SpecReader)
    target,     \* the struct the caller passes to ReadNext / ReadAt
    last,       \* the last call: its arguments and what it returned
    seen,       \* record index -> decoded fields of the first read of it that hit no I/O error
    scan        \* successful ReadNext calls since the last Reset, -1 once the cursor was moved otherwise

vars == <<text, file, headerStr, header, stage, readers, reader, target, last, seen, scan>>

Min(a, b) == IF a < b THEN a ELSE b

(***************************************************************************)
(* Strings.                                                                 *)
(***************************************************************************)
\* s[from:to] of Go, 0-based and half-open
Slice(s, from, to) == [i \in 1..(to - from) |-> s[from + i]]

\* strings.Index(s, sub): the 0-based index of the first occurrence, or -1
Index(s, sub) ==
    LET hits == {i \in 0..(Len(s) - Len(sub)) : Slice(s, i, i + Len(sub)) = sub}
    IN  IF hits = {} THEN -1 ELSE CHOOSE i \in hits : \A j \in hits : i <= j

HasPrefix(s, p) == Len(s) >= Len(p) /\ Slice(s, 0, Len(p)) = p

\* strings.Split(s, "\n")
RECURSIVE Split(_)
Split(s) ==
    LET i == Index(s, <<"\n">>)
    IN  IF i = -1 THEN <<s>> ELSE <<Slice(s, 0, i)>> \o Split(Slice(s, i + 1, Len(s)))

\* the classes \d and \w of the regular expressions
Digit == {"0", "1", "2", "3", "4", "5", "6", "7", "8", "9"}
Letter ==
    {"a", "b", "c", "d", "e", "f", "g", "h", "i", "j", "k", "l", "m",
     "n", "o", "p", "q", "r", "s", "t", "u", "v", "w", "x", "y", "z",
     "A", "B", "C", "D", "E", "F", "G", "H", "I", "J", "K", "L", "M",
     "N", "O", "P", "Q", "R", "S", "T", "U", "V", "W", "X", "Y", "Z"}
WordChar == Digit \cup Letter \cup {"_"}

\* where the longest run of characters of class that starts at 0-based index i ends
RECURSIVE RunEnd(_, _, _)
RunEnd(s, i, class) ==
    IF i < Len(s) /\ s[i + 1] \in class THEN RunEnd(s, i + 1, class) ELSE i

\* the literal "end_header"
headerEnd == <<"e", "n", "d", "_", "h", "e", "a", "d", "e", "r">>

\* the words of the header
FormatWord == <<"f", "o", "r", "m", "a", "t", " ">>
CommentWord == <<"c", "o", "m", "m", "e", "n", "t", " ">>
ElementWord == <<"e", "l", "e", "m", "e", "n", "t", " ">>
PropertyWord == <<"p", "r", "o", "p", "e", "r", "t", "y", " ">>
Ascii == <<"a", "s", "c", "i", "i">>
BinaryLittleEndian == <<"b", "i", "n", "a", "r", "y", "_", "l", "i", "t", "t", "l", "e", "_", "e", "n", "d", "i", "a", "n">>

\* the scalar type names
TChar == <<"c", "h", "a", "r">>
TUchar == <<"u", "c", "h", "a", "r">>
TShort == <<"s", "h", "o", "r", "t">>
TUshort == <<"u", "s", "h", "o", "r", "t">>
TInt == <<"i", "n", "t">>
TUint == <<"u", "i", "n", "t">>
TFloat == <<"f", "l", "o", "a", "t">>
TDouble == <<"d", "o", "u", "b", "l", "e">>
PropertyTypes == {TChar, TUchar, TShort, TUshort, TInt, TUint, TFloat, TDouble}

\* the element and property names the headers and targets below use
Vertex == <<"v", "e", "r", "t", "e", "x">>
Face == <<"f", "a", "c", "e">>
Edge == <<"e", "d", "g", "e">>
NameX == <<"x">>
NameY == <<"y">>
NameZ == <<"z">>
NameRed == <<"r", "e", "d">>
NameGreen == <<"g", "r", "e", "e", "n">>
NameBlue == <<"b", "l", "u", "e">>
NameW == <<"w">>
NameA == <<"a">>
NameB == <<"b">>

\* the size of the buffer readHeader reads into
ChunkSize == 100

NoHeader == [Format |-> <<>>, Comment |-> <<>>, offset |-> 0, Elements |-> <<>>]
NoReader == [pos |-> -1, offset |-> -1, element |-> 0]
NoCall == [op |-> "none"]

\* the element names the headers use, and the names a caller asks a reader for
ElementNames == {Vertex, Face}
AskedNames == ElementNames \cup {Edge}
NoReaders == [n \in AskedNames |-> NoReader]

(***************************************************************************)
(* readHeader, one iteration of its read loop per step.                     *)
(***************************************************************************)
\* the state readHeader's loop body leaves after f.file.Read delivered n bytes
ReadHeaderChunk(n) ==
    LET acc == headerStr \o Slice(text, file.pos, file.pos + n)
        pos == Index(acc, headerEnd)
        off == pos + Len(headerEnd) + 1
    IN  /\ file' = [file EXCEPT !.pos = @ + n]
        /\ IF pos = -1
           THEN /\ headerStr' = acc
                /\ UNCHANGED <<header, stage>>
           ELSE /\ header' = [header EXCEPT !.offset = off]
                /\ IF off > Len(acc)
                   THEN \* f.headerStr[:f.header.offset]: slice bounds out of range
                        /\ headerStr' = acc
                        /\ stage' = "panic"
                   ELSE /\ headerStr' = Slice(acc, 0, off)
                        /\ stage' = IF Slice(acc, 0, off) = <<>> THEN "failed" ELSE "parseHeader"

\* f.file.Read(buf) delivers between 1 and len(buf) of the bytes that are left
ReadHeaderStep ==
    /\ stage = "readHeader"
    /\ file.pos < file.size
    /\ \E n \in 1..Min(ChunkSize, file.size - file.pos) : ReadHeaderChunk(n)
    /\ UNCHANGED <<text, readers, reader, target, last, seen, scan>>

\* f.file.Read(buf) at the end of the source: io.EOF, "failed read header"
ReadHeaderEOF ==
    /\ stage = "readHeader"
    /\ file.pos >= file.size
    /\ stage' = "failed"
    /\ UNCHANGED <<text, file, headerStr, header, readers, reader, target, last, seen, scan>>

(***************************************************************************)
(* The sources the header reader is run on.                                 *)
(***************************************************************************)
FillBlock == 77
MaxBody == 2

Filler(n) == [i \in 1..n |-> "x"]
PlyLine == <<"p", "l", "y", "\n">>
BodyBytes(n) == [i \in 1..n |-> "B"]

\* ply / comment xxx / end_header / body
GoodSource(fill, body) ==
    PlyLine \o CommentWord \o Filler(fill) \o <<"\n">> \o headerEnd \o <<"\n">> \o BodyBytes(body)

HeaderSources ==
    {GoodSource(f, b) : f \in {1, FillBlock}, b \in 0..MaxBody}
    \cup {PlyLine \o headerEnd \o <<"\n">>}
    \* the word end_header inside a comment, before the terminator line
    \cup {PlyLine \o CommentWord \o headerEnd \o <<" ", "x", "\n">> \o headerEnd \o <<"\n">> \o BodyBytes(1)}
    \* no terminator at all, and a terminator that is the last bytes of the source
    \cup {PlyLine \o CommentWord \o Filler(3) \o <<"\n">>}
    \cup {PlyLine \o headerEnd}

InitHeader ==
    /\ text \in HeaderSources
    /\ file = [closed |-> FALSE, pos |-> 0, size |-> Len(text)]
    /\ headerStr = <<>>
    /\ header = NoHeader
    /\ stage = "readHeader"
    /\ readers = NoReaders
    /\ reader = NoReader
    /\ target = <<>>
    /\ last = NoCall
    /\ seen = <<>>
    /\ scan = -1

NextHeader == ReadHeaderStep \/ ReadHeaderEOF

SpecHeader == InitHeader /\ [][NextHeader]_vars

(***************************************************************************)
(* The regular expressions of parseHeader.  Each gives the groups of the   *)
(* match at the start of the line, or the empty sequence when the line     *)
(* does not match.                                                          *)
(***************************************************************************)
\* ^format (ascii|binary_little_endian).*
MatchFormat(line) ==
    IF HasPrefix(line, FormatWord \o Ascii) THEN <<Ascii>>
    ELSE IF HasPrefix(line, FormatWord \o BinaryLittleEndian) THEN <<BinaryLittleEndian>>
    ELSE <<>>

\* ^comment (.*)
MatchComment(line) ==
    IF HasPrefix(line, CommentWord) THEN <<Slice(line, Len(CommentWord), Len(line))>> ELSE <<>>

\* ^element (\w*) (\d*): the longest run of word characters, a space, the longest run of digits
MatchElement(line) ==
    LET nameEnd == RunEnd(line, Len(ElementWord), WordChar)
    IN  IF HasPrefix(line, ElementWord) /\ HasPrefix(Slice(line, nameEnd, Len(line)), <<" ">>)
        THEN <<Slice(line, Len(ElementWord), nameEnd),
               Slice(line, nameEnd + 1, RunEnd(line, nameEnd + 1, Digit))>>
        ELSE <<>>

\* ^property (char|uchar|short|ushort|int|uint|float|double) (\w*)
MatchProperty(line) ==
    LET rest == Slice(line, Len(PropertyWord), Len(line))
        types == {t \in PropertyTypes : HasPrefix(rest, t \o <<" ">>)}
    IN  IF HasPrefix(line, PropertyWord) /\ types # {}
        THEN LET t == CHOOSE t \in types : TRUE
                 from == Len(PropertyWord) + Len(t) + 1
             IN  <<t, Slice(line, from, RunEnd(line, from, WordChar))>>
        ELSE <<>>

DigitValue(d) ==
    CASE d = "0" -> 0 [] d = "1" -> 1 [] d = "2" -> 2 [] d = "3" -> 3 [] d = "4" -> 4
      [] d = "5" -> 5 [] d = "6" -> 6 [] d = "7" -> 7 [] d = "8" -> 8 [] d = "9" -> 9

\* strconv.Atoi on a run of digits, its error dropped: the empty string gives 0
RECURSIVE Atoi(_)
Atoi(digits) ==
    IF digits = <<>> THEN 0
    ELSE 10 * Atoi(SubSeq(digits, 1, Len(digits) - 1)) + DigitValue(digits[Len(digits)])

propertySize(t) ==
    CASE t = TChar -> 1 [] t = TUchar -> 1
      [] t = TShort -> 2 [] t = TUshort -> 2
      [] t = TInt -> 4 [] t = TUint -> 4
      [] t = TFloat -> 4
      [] t = TDouble -> 8
      [] OTHER -> 0

\* a nil *element
NilElement == [Name |-> <<>>, Count |-> 0, Properties |-> <<>>, isNil |-> TRUE]
NewElement(name, count) == [Name |-> name, Count |-> count, Properties |-> <<>>, isNil |-> FALSE]
NewProperty(type, name) == [Type |-> type, Name |-> name, Size |-> propertySize(type)]

RECURSIVE SumSizes(_)
SumSizes(props) ==
    IF props = <<>> THEN 0 ELSE props[1].Size + SumSizes(Tail(props))

PointByteSize(e) == SumSizes(e.Properties)

(***************************************************************************)
(* parseHeader.  st is the loop's state: the header fields it fills, the   *)
(* element under construction (currElement) and whether a nil pointer was  *)
(* dereferenced.  Every element is appended when the next element line or  *)
(* the end_header line is met; end_header is the last line but one of      *)
(* headerStr, so no property is added to an element after it was appended. *)
(***************************************************************************)
ParseStart(h) ==
    [Format |-> h.Format, Comment |-> h.Comment, Elements |-> h.Elements,
     curr |-> NilElement, panic |-> FALSE]

\* the element branch: close the element under construction, open a new one
ParseElement(groups, st) ==
    [st EXCEPT !.Elements = IF st.curr.isNil THEN @ ELSE Append(@, st.curr),
               !.curr = NewElement(groups[1], Atoi(groups[2]))]

\* the property branch: append to currElement.Properties
ParseProperty(groups, st) ==
    IF st.curr.isNil
    THEN [st EXCEPT !.panic = TRUE]
    ELSE [st EXCEPT !.curr.Properties = Append(@, NewProperty(groups[1], groups[2]))]

\* the end of the loop body: the property branch, which does not continue, and
\* the test line == headerEnd
ParseTail(line, st) ==
    LET groups == MatchProperty(line)
        after == IF groups # <<>> THEN ParseProperty(groups, st) ELSE st
    IN  IF ~after.panic /\ line = headerEnd
        THEN [after EXCEPT !.Elements = Append(@, after.curr)]
        ELSE after

\* one iteration of the loop over headerLines
ParseLine(line, st) ==
    IF MatchFormat(line) # <<>> THEN [st EXCEPT !.Format = MatchFormat(line)[1]]
    ELSE IF MatchComment(line) # <<>> THEN [st EXCEPT !.Comment = MatchComment(line)[1]]
    ELSE IF MatchElement(line) # <<>> THEN ParseElement(MatchElement(line), st)
    ELSE ParseTail(line, st)

RECURSIVE ParseLines(_, _)
ParseLines(ls, st) ==
    IF ls = <<>> \/ st.panic THEN st ELSE ParseLines(Tail(ls), ParseLine(ls[1], st))

parseHeader(str, h) == ParseLines(Split(str), ParseStart(h))

(***************************************************************************)
(* Layout arithmetic and GetElementReader.                                  *)
(***************************************************************************)
\* Has and getElement dereference every element up to the first match
HasNilBefore(elems, name) ==
    \E i \in 1..Len(elems) :
        /\ elems[i].isNil
        /\ \A j \in 1..(i - 1) : elems[j].Name # name

Has(elems, name) == \E i \in 1..Len(elems) : elems[i].Name = name

\* the index of the element getElement returns; 0 for nil
getElement(elems, name) ==
    IF Has(elems, name)
    THEN CHOOSE i \in 1..Len(elems) :
            elems[i].Name = name /\ \A j \in 1..(i - 1) : elems[j].Name # name
    ELSE 0

\* the offset loop with each element counted as one record
RECURSIVE getElementOffsetOneRecord(_, _, _)
getElementOffsetOneRecord(elems, name, offset) ==
    IF elems = <<>> \/ elems[1].Name = name THEN offset
    ELSE getElementOffsetOneRecord(Tail(elems), name, offset + PointByteSize(elems[1]))

RECURSIVE getElementOffsetFrom(_, _, _)
getElementOffsetFrom(elems, name, offset) ==
    IF elems = <<>> \/ elems[1].Name = name THEN offset
    ELSE getElementOffsetFrom(Tail(elems), name, offset + elems[1].Count * PointByteSize(elems[1]))

getElementOffset(elems, name) ==
    IF ~Has(elems, name) THEN -1 ELSE getElementOffsetFrom(elems, name, 0)

NewReader(h, name) ==
    [pos |-> 0, offset |-> h.offset + getElementOffset(h.Elements, name),
     element |-> getElement(h.Elements, name)]

\* Open, after readHeader: parseHeader and the format check
Open ==
    /\ stage = "parseHeader"
    /\ \E st \in {parseHeader(headerStr, header)} :
        /\ header' = [Format |-> st.Format, Comment |-> st.Comment,
                      offset |-> header.offset, Elements |-> st.Elements]
        /\ IF st.panic
           THEN stage' = "panic" /\ file' = file
           ELSE IF st.Format # BinaryLittleEndian
                THEN stage' = "failed" /\ file' = [file EXCEPT !.closed = TRUE]
                ELSE stage' = "opened" /\ file' = file
    /\ UNCHANGED <<text, headerStr, readers, reader, target, last, seen, scan>>

GetElementReader(name) ==
    /\ stage = "opened"
    /\ IF HasNilBefore(header.Elements, name)
       THEN /\ stage' = "panic"
            /\ UNCHANGED readers
            /\ last' = [op |-> "GetElementReader", name |-> name, err |-> "panic"]
       ELSE IF ~Has(header.Elements, name)
            THEN /\ UNCHANGED <<stage, readers>>
                 /\ last' = [op |-> "GetElementReader", name |-> name, err |-> "unknown element"]
            ELSE /\ readers' = [readers EXCEPT ![name] = NewReader(header, name)]
                 /\ last' = [op |-> "GetElementReader", name |-> name, err |-> "nil"]
                 /\ UNCHANGED stage
    /\ UNCHANGED <<text, file, headerStr, header, reader, target, seen, scan>>

(***************************************************************************)
(* The header texts the parser is run on: a first line "ply", with or      *)
(* without a format line, up to MaxLines lines drawn from BodyLines, and   *)
(* the text readHeader cuts the header at: the line end_header, or the     *)
(* word end_header inside a comment.  Among the lines are element lines    *)
(* with an empty count and a line that no pattern matches.                  *)
(***************************************************************************)
MaxLines == 3

FormatLine(f) == FormatWord \o f \o <<" ", "1", ".", "0">>
CommentLine(t) == CommentWord \o t
ElementLine(name, digits) == ElementWord \o name \o <<" ">> \o digits
PropertyLine(type, name) == PropertyWord \o type \o <<" ">> \o name
ListLine == <<"p", "r", "o", "p", "e", "r", "t", "y", " ", "l", "i", "s", "t", " ", "u", "c", "h", "a", "r", " ", "i", "n", "t", " ", "v", "e", "r", "t", "e", "x", "_", "i", "n", "d", "i", "c", "e", "s">>
PlyWord == <<"p", "l", "y">>

BodyLines ==
    {ElementLine(n, d) : n \in ElementNames, d \in {<<>>, <<"1">>, <<"2">>}}
    \cup {PropertyLine(TUchar, NameRed), PropertyLine(TFloat, NameX)}
    \cup {CommentLine(<<"m", "a", "d", "e", " ", "b", "y", " ", "h", "a", "n", "d">>), ListLine}

Preambles == {<<PlyWord>>, <<PlyWord, FormatLine(BinaryLittleEndian)>>, <<PlyWord, FormatLine(Ascii)>>}
Terminators == {<<headerEnd>>, <<CommentLine(headerEnd)>>}

SeqsUpTo(S, n) == UNION {[1..k -> S] : k \in 0..n}

\* the lines, each ended by a newline
RECURSIVE Render(_)
Render(ls) == IF ls = <<>> THEN <<>> ELSE ls[1] \o <<"\n">> \o Render(Tail(ls))

HeaderTexts ==
    {Render(p \o b \o t) : p \in Preambles, b \in SeqsUpTo(BodyLines, MaxLines), t \in Terminators}

InitParse ==
    /\ headerStr \in HeaderTexts
    /\ text = headerStr
    /\ file = [closed |-> FALSE, pos |-> Len(text), size |-> Len(text)]
    /\ header = [NoHeader EXCEPT !.offset = Len(headerStr)]
    /\ stage = "parseHeader"
    /\ readers = NoReaders
    /\ reader = NoReader
    /\ target = <<>>
    /\ last = NoCall
    /\ seen = <<>>
    /\ scan = -1

NextParse == Open \/ \E name \in AskedNames : GetElementReader(name)

SpecParse == InitParse /\ [][NextParse]_vars


(***************************************************************************)
(* The file body and the targets of the record decoder.                     *)
(***************************************************************************)
\* the byte the source holds at absolute position p: neighbouring positions differ
ByteAt(p) == (p * 37 + 11) % 256

\* the Go type of the local v the type switch of ReadNext declares
GoType(t) ==
    CASE t = TChar -> "uint8" [] t = TUchar -> "uint8"
      [] t = TShort -> "int16" [] t = TUshort -> "uint16"
      [] t = TInt -> "int32" [] t = TUint -> "uint32"
      [] t = TFloat -> "float32"
      [] t = TDouble -> "float64"
      [] OTHER -> "none"

GoSize(t) ==
    CASE t = "uint8" -> 1 [] t = "int16" -> 2 [] t = "uint16" -> 2
      [] t = "int32" -> 4 [] t = "uint32" -> 4 [] t = "float32" -> 4
      [] t = "float64" -> 8

\* the value every byte of a target field holds before the first read
PriorByte == 170

\* a struct field with its `ply:"..."` tag
Field(tag, type) == [tag |-> tag, type |-> type, bytes |-> [i \in 1..GoSize(type) |-> PriorByte]]

\* fields in header order, in another order, a subset with an unbound field,
\* two fields with one tag, and the package's own Point
TargetExact == <<Field(NameX, "float32"), Field(NameY, "float32"), Field(NameRed, "uint8")>>
TargetReordered == <<Field(NameRed, "uint8"), Field(NameY, "float32"), Field(NameX, "float32")>>
TargetPartial == <<Field(NameW, "uint16"), Field(NameY, "float32")>>
TargetTwice == <<Field(NameRed, "uint8"), Field(NameX, "float32"), Field(NameRed, "uint8")>>
Point ==
    <<Field(NameX, "float64"), Field(NameY, "float64"), Field(NameZ, "float64"),
      Field(NameRed, "uint8"), Field(NameGreen, "uint8"), Field(NameBlue, "uint8")>>

Targets == {TargetExact, TargetReordered, TargetPartial, TargetTwice, Point}

(***************************************************************************)
(* The record decoder: the loop of ReadNext over the element's properties. *)
(***************************************************************************)
\* the inner loop over the fields of the target, from field i on:
\* reflect's Set panics when v's type is not the field's type
RECURSIVE SetTagged(_, _, _, _)
SetTagged(st, i, name, v) ==
    IF i > Len(st.target) \/ st.panic THEN st
    ELSE IF st.target[i].tag # name THEN SetTagged(st, i + 1, name, v)
    ELSE IF st.target[i].type # v.type THEN [st EXCEPT !.panic = TRUE]
    ELSE SetTagged([st EXCEPT !.target[i].bytes = v.bytes], i + 1, name, v)

\* memcpy(buf[offset:offset+prop.Size], &v)
PropValue(prop, buf, offset) ==
    [type |-> GoType(prop.Type), bytes |-> Slice(buf, offset, offset + prop.Size)]

\* the decoder with the running offset advanced only past the properties the target binds
RECURSIVE DecodeFromBoundOnly(_, _, _, _)
DecodeFromBoundOnly(props, buf, offset, st) ==
    IF props = <<>> \/ st.panic THEN st
    ELSE DecodeFromBoundOnly(Tail(props), buf,
            IF \E i \in 1..Len(st.target) : st.target[i].tag = props[1].Name
            THEN offset + props[1].Size ELSE offset,
            SetTagged(st, 1, props[1].Name, PropValue(props[1], buf, offset)))

RECURSIVE DecodeFrom(_, _, _, _)
DecodeFrom(props, buf, offset, st) ==
    IF props = <<>> \/ st.panic THEN st
    ELSE DecodeFrom(Tail(props), buf, offset + props[1].Size,
                    SetTagged(st, 1, props[1].Name, PropValue(props[1], buf, offset)))

Decode(props, buf, tgt) == DecodeFrom(props, buf, 0, [target |-> tgt, panic |-> FALSE])

(***************************************************************************)
(* The shared file handle.                                                  *)
(***************************************************************************)
\* the number of bytes f.Read delivers into a buffer of size bytes
ReadCount(f, size, fault) ==
    IF fault \/ f.pos >= f.size THEN 0 ELSE Min(size, f.size - f.pos)

\* the error f.Read returns: a read of no bytes into an empty buffer is no error
ReadErr(f, size, fault) ==
    IF size = 0 THEN "nil"
    ELSE IF fault THEN "EIO"
    ELSE IF f.pos >= f.size THEN "EOF"
    ELSE "nil"

\* the buffer after the read: make's zeroes behind the bytes delivered
ReadBuf(f, size, n) == [i \in 1..size |-> IF i <= n THEN ByteAt(f.pos + i - 1) ELSE 0]

(***************************************************************************)
(* ElementReader.                                                           *)
(***************************************************************************)
ElementOf(r) == header.Elements[r.element]

\* Seek's range check with the last position refused
SeekFailsAtCount(r, pos) == pos < 0 \/ pos >= ElementOf(r).Count

SeekFails(r, pos) == pos < 0 \/ pos > ElementOf(r).Count

\* what a call returned and left behind: the cursor, the file, the target, the
\* error and the result, where the read was issued (at) and the bytes it
\* delivered (n); at and n are -1 when the call issued no read
Outcome(pos, f, tgt, err, ret, at, n) ==
    [pos |-> pos, file |-> f, target |-> tgt, err |-> err, ret |-> ret, at |-> at, n |-> n]

\* Seek on reader r
SeekCall(r, f, tgt, pos) ==
    IF SeekFails(r, pos)
    THEN Outcome(r.pos, f, tgt, "range", -1, -1, -1)
    ELSE Outcome(pos, f, tgt, "nil", -1, -1, -1)

\* the record position with the cursor not scaled by the record size
RecordPosUnscaled(r) == r.offset + r.pos

\* the absolute position ReadNext seeks to
RecordPos(r) == r.offset + r.pos * PointByteSize(ElementOf(r))

\* ReadNext on reader r; fault: the read hits an I/O error
ReadNextCall(r, f, tgt, fault) ==
    LET e == ElementOf(r)
        size == PointByteSize(e)
        at == RecordPos(r)
        sought == [f EXCEPT !.pos = at]
        n == ReadCount(sought, size, fault)
        after == [sought EXCEPT !.pos = @ + n]
        dec == Decode(e.Properties, ReadBuf(sought, size, n), tgt)
    IN  IF f.closed THEN Outcome(r.pos, f, tgt, "closed", -1, -1, -1)
        ELSE IF r.pos >= e.Count THEN Outcome(r.pos, sought, tgt, "EOF", -1, -1, -1)
        ELSE IF ReadErr(sought, size, fault) = "EOF" THEN Outcome(r.pos, after, tgt, "EOF", -1, at, n)
        ELSE IF dec.panic THEN Outcome(r.pos, after, dec.target, "panic", -1, at, n)
        ELSE Outcome(r.pos + 1, after, dec.target, "nil", r.pos + 1, at, n)

\* ReadAt that leaves the cursor where ReadNext left it
ReadAtCallNoRestore(r, f, tgt, pos, fault) ==
    IF SeekFails(r, pos) THEN SeekCall(r, f, tgt, pos)
    ELSE ReadNextCall([r EXCEPT !.pos = pos], f, tgt, fault)

\* ReadAt on reader r: Seek, ReadNext, and the cursor put back when both succeed
ReadAtCall(r, f, tgt, pos, fault) ==
    LET out == ReadNextCall([r EXCEPT !.pos = pos], f, tgt, fault)
    IN  IF SeekFails(r, pos) THEN SeekCall(r, f, tgt, pos)
        ELSE IF out.err # "nil" THEN out
        ELSE [out EXCEPT !.pos = r.pos]

\* the decoded part of a target: the bytes of its fields that a property of the element binds
Decoded(e, tgt) ==
    [i \in {j \in 1..Len(tgt) : \E k \in 1..Len(e.Properties) : e.Properties[k].Name = tgt[j].tag}
        |-> tgt[i].bytes]

\* the record of a call, kept for the properties below
Call(op, arg, out, fault) ==
    [op |-> op, arg |-> arg, err |-> out.err, ret |-> out.ret, at |-> out.at, n |-> out.n,
     fault |-> fault /\ out.n # -1, prePos |-> reader.pos]

\* a read that succeeded with no I/O error is noted under the index of its record
Note(idx, out, fault) ==
    IF out.err = "nil" /\ ~fault /\ idx \notin DOMAIN seen
    THEN [i \in DOMAIN seen \cup {idx} |-> IF i = idx THEN Decoded(ElementOf(reader), out.target) ELSE seen[i]]
    ELSE seen

\* the state a read leaves: a panic ends the program
Apply(out) ==
    /\ reader' = [reader EXCEPT !.pos = out.pos]
    /\ file' = out.file
    /\ target' = out.target
    /\ stage' = IF out.err = "panic" THEN "panic" ELSE stage

\* an I/O error can only hit a call that issues a read of at least one byte
Faulty(out, fault) == fault => (out.n # -1 /\ PointByteSize(ElementOf(reader)) > 0)

Seek(pos) ==
    /\ stage = "opened"
    /\ \E out \in {SeekCall(reader, file, target, pos)} :
           /\ Apply(out)
           /\ last' = Call("Seek", pos, out, FALSE)
           /\ scan' = IF out.err = "nil" THEN -1 ELSE scan
    /\ UNCHANGED <<text, headerStr, header, readers, seen>>

Reset ==
    /\ stage = "opened"
    /\ \E out \in {SeekCall(reader, file, target, 0)} :
           /\ Apply(out)
           /\ last' = Call("Reset", 0, out, FALSE)
           /\ scan' = IF out.err = "nil" THEN 0 ELSE scan
    /\ UNCHANGED <<text, headerStr, header, readers, seen>>

ReadNext(fault) ==
    /\ stage = "opened"
    /\ \E out \in {ReadNextCall(reader, file, target, fault)} :
           /\ Faulty(out, fault)
           /\ Apply(out)
           /\ last' = Call("ReadNext", reader.pos, out, fault)
           /\ seen' = Note(reader.pos, out, fault)
           /\ scan' = IF out.err = "nil" /\ scan >= 0 THEN scan + 1 ELSE scan
    /\ UNCHANGED <<text, headerStr, header, readers>>

ReadAt(pos, fault) ==
    /\ stage = "opened"
    /\ \E out \in {ReadAtCall(reader, file, target, pos, fault)} :
           /\ Faulty(out, fault)
           /\ Apply(out)
           /\ last' = Call("ReadAt", pos, out, fault)
           /\ seen' = Note(pos, out, fault)
           /\ scan' = IF out.pos = reader.pos THEN scan ELSE -1
    /\ UNCHANGED <<text, headerStr, header, readers>>

ReadFirst(fault) ==
    /\ stage = "opened"
    /\ \E out \in {ReadAtCall(reader, file, target, 0, fault)} :
           /\ Faulty(out, fault)
           /\ Apply(out)
           /\ last' = Call("ReadFirst", 0, out, fault)
           /\ seen' = Note(0, out, fault)
           /\ scan' = IF out.pos = reader.pos THEN scan ELSE -1
    /\ UNCHANGED <<text, headerStr, header, readers>>

\* PlyFile.Close: the readers keep the closed handle
Close ==
    /\ stage = "opened"
    /\ ~file.closed
    /\ file' = [file EXCEPT !.closed = TRUE]
    /\ header' = [header EXCEPT !.offset = 0]
    /\ headerStr' = <<>>
    /\ last' = [op |-> "Close"]
    /\ UNCHANGED <<text, stage, readers, reader, target, seen, scan>>

(***************************************************************************)
(* The files the reader is run on: a header, parsed by parseHeader, the    *)
(***************************************************************************)
(* The files the reader is run on: a header that Open accepts, the element *)
(* reader GetElementReader builds for one of its elements, a body that is  *)
(* whole or cut short, and a target.                                        *)
(***************************************************************************)
MaxCount == 2

Digits(n) == <<CASE n = 0 -> "0" [] n = 1 -> "1" [] n = 2 -> "2" [] n = 3 -> "3" [] n = 4 -> "4"
                 [] n = 5 -> "5" [] n = 6 -> "6" [] n = 7 -> "7" [] n = 8 -> "8" [] n = 9 -> "9">>

Binary == FormatLine(BinaryLittleEndian)

\* the header of the package's end-to-end scenario: element vertex n, float x, float y, uchar red
HeaderXYRed(n) ==
    Render(<<PlyWord, Binary, CommentLine(<<"t", "e", "s", "t">>), ElementLine(Vertex, Digits(n)),
             PropertyLine(TFloat, NameX), PropertyLine(TFloat, NameY), PropertyLine(TUchar, NameRed),
             headerEnd>>)

\* an element the targets bind in part, behind another element
HeaderTwo(n) ==
    Render(<<PlyWord, Binary, ElementLine(Face, <<"1">>), PropertyLine(TShort, NameA),
             PropertyLine(TUchar, NameB), ElementLine(Vertex, Digits(n)),
             PropertyLine(TUchar, NameGreen), PropertyLine(TFloat, NameY),
             PropertyLine(TUchar, NameRed), PropertyLine(TUshort, NameW), headerEnd>>)

\* double coordinates, as Point declares them, and a property name declared twice
HeaderDouble(n) ==
    Render(<<PlyWord, Binary, ElementLine(Vertex, Digits(n)), PropertyLine(TDouble, NameX),
             PropertyLine(TUchar, NameRed), PropertyLine(TUchar, NameBlue),
             PropertyLine(TUchar, NameRed), headerEnd>>)

\* an element with no property: records of no bytes
HeaderBare(n) == Render(<<PlyWord, Binary, ElementLine(Vertex, Digits(n)), headerEnd>>)

ReaderHeaders ==
    UNION {{HeaderXYRed(n), HeaderTwo(n), HeaderDouble(n), HeaderBare(n)} : n \in 0..MaxCount}

\* the header Open leaves for a header text readHeader accepted
Parsed(str) ==
    LET st == parseHeader(str, NoHeader)
    IN  [Format |-> st.Format, Comment |-> st.Comment, offset |-> Len(str), Elements |-> st.Elements]

RECURSIVE BodySize(_)
BodySize(elems) ==
    IF elems = <<>> THEN 0 ELSE elems[1].Count * PointByteSize(elems[1]) + BodySize(Tail(elems))

\* the whole file, the file less its last byte, and the file less its last record
FileSizes(h) ==
    LET full == h.offset + BodySize(h.Elements)
        lastRec == PointByteSize(h.Elements[Len(h.Elements)])
    IN  {full} \cup {s \in {full - 1, full - lastRec} : s >= h.offset}

InitReader ==
    /\ headerStr \in ReaderHeaders
    /\ text = headerStr
    /\ header = Parsed(headerStr)
    /\ \E size \in FileSizes(header) : file = [closed |-> FALSE, pos |-> header.offset, size |-> size]
    /\ stage = "opened"
    /\ readers = NoReaders
    /\ reader = NewReader(header, Vertex)
    /\ target \in Targets
    /\ last = NoCall
    /\ seen = <<>>
    /\ scan = -1

\* the positions a caller asks for: every cursor value, and one beyond either end
ArgRange == -1..(ElementOf(reader).Count + 1)

NextReader ==
    \/ \E pos \in ArgRange : Seek(pos)
    \/ Reset
    \/ \E fault \in BOOLEAN : ReadNext(fault)
    \/ \E pos \in ArgRange, fault \in BOOLEAN : ReadAt(pos, fault)
    \/ \E fault \in BOOLEAN : ReadFirst(fault)
    \/ Close

SpecReader == InitReader /\ [][NextReader]_vars

(***************************************************************************)
(* Properties.                                                              *)
(***************************************************************************)
ReadOps == {"ReadNext", "ReadAt", "ReadFirst"}

\* the last call was a read that returned no error
ReadOk == last.op \in ReadOps /\ last.err = "nil"

\* the index of the record the last read was after
ReadIndex == IF last.op = "ReadNext" THEN last.prePos ELSE last.arg

Elem == ElementOf(reader)

\* C1: Seek(pos) sets the cursor to pos and returns no error exactly when
\* 0 <= pos <= Count; for any other pos it returns an error and the cursor
\* keeps the value it had before the call.
SeekContract ==
    last.op = "Seek" =>
        IF 0 <= last.arg /\ last.arg <= Elem.Count
        THEN last.err = "nil" /\ reader.pos = last.arg
        ELSE last.err # "nil" /\ reader.pos = last.prePos

\* Seek(Count) succeeded from another cursor value
SeekToCountReached ==
    /\ last.op = "Seek"
    /\ Elem.Count > 0
    /\ last.arg = Elem.Count
    /\ last.prePos # last.arg
    /\ last.err = "nil"
    /\ reader.pos = Elem.Count

\* C2: ReadNext on a reader whose cursor equals Count fails with io.EOF in
\* every state of the file handle, without advancing the cursor and without
\* reading any bytes.
ReadNextAtCountIsEOF ==
    (last.op = "ReadNext" /\ last.prePos = Elem.Count) =>
        /\ last.err = "EOF"
        /\ reader.pos = last.prePos
        /\ last.n = -1

\* C3: a successful ReadAt or ReadFirst leaves the cursor at the value it had
\* before the call; a ReadAt that fails in Seek leaves the cursor unchanged,
\* and one that fails in ReadNext leaves it at the position asked for.
ReadAtCursor ==
    last.op \in {"ReadAt", "ReadFirst"} =>
        CASE last.err = "nil" -> reader.pos = last.prePos
          [] last.err = "range" -> reader.pos = last.prePos
          [] OTHER -> reader.pos = last.arg

\* ReadAt succeeded on a record other than the one under the cursor
ReadAtElsewhereReached ==
    /\ last.op = "ReadAt"
    /\ last.err = "nil"
    /\ last.arg # last.prePos
    /\ last.prePos > 0
    /\ reader.pos = last.prePos

\* C4: every successful read of record i that hit no I/O error, by ReadNext
\* from cursor i or by ReadAt(i), decodes the same values; and the k-th
\* successful ReadNext after Reset returns k and reads at
\* base offset + (k-1) * record byte size.
ScanEqualsReadAt ==
    /\ (ReadOk /\ ~last.fault) =>
            /\ ReadIndex \in DOMAIN seen
            /\ Decoded(Elem, target) = seen[ReadIndex]
    /\ (ReadOk /\ last.op = "ReadNext" /\ scan >= 1) =>
            /\ last.ret = scan
            /\ last.at = reader.offset + (scan - 1) * PointByteSize(Elem)

\* after Reset and Count successful ReadNext calls that noted every record,
\* ReadAt read the last record again
ScanThenReadAtReached ==
    /\ Elem.Count >= 2
    /\ PointByteSize(Elem) > 0
    /\ scan = Elem.Count
    /\ DOMAIN seen = 0..(Elem.Count - 1)
    /\ last.op = "ReadAt"
    /\ last.arg = Elem.Count - 1
    /\ last.err = "nil"
    /\ ~last.fault

\* the elements' names are pairwise distinct
DistinctNames(elems) ==
    \A i, j \in 1..Len(elems) : elems[i].Name = elems[j].Name => i = j

\* the body bytes of the elements declared before the i-th
RECURSIVE LayoutBefore(_, _)
LayoutBefore(elems, i) ==
    IF i <= 1 THEN 0
    ELSE LayoutBefore(elems, i - 1) + elems[i - 1].Count * PointByteSize(elems[i - 1])

\* the reader handed out for the name of the i-th element starts where the
\* reader for the name of the element before it ends
ChainedAt(elems, i) ==
    readers[elems[i].Name] # NoReader =>
        IF i = 1 THEN readers[elems[i].Name].offset = header.offset
        ELSE readers[elems[i - 1].Name] # NoReader =>
                readers[elems[i].Name].offset =
                    readers[elems[i - 1].Name].offset
                        + elems[i - 1].Count * PointByteSize(elems[i - 1])

NoNilElement == \A i \in 1..Len(header.Elements) : ~header.Elements[i].isNil

\* C5 as stated: for every parsed header, the reader for the first declared
\* element has base offset body_offset, and the reader for each later element
\* has the base offset of the reader for the element before it plus that
\* element's Count times its record byte size.
ReaderOffsetsChained ==
    (stage = "opened" /\ NoNilElement) =>
        \A i \in 1..Len(header.Elements) : ChainedAt(header.Elements, i)

\* C5, amended: the reader GetElementReader(name) returns is bound to the first
\* element declared with that name and its base offset is body_offset plus the
\* sum of Count times record byte size over the elements declared before that
\* one; when no two elements share a name, the offsets chain as C5 states.
ReaderOffsetsLayout ==
    (stage = "opened" /\ NoNilElement) =>
        /\ \A name \in AskedNames :
                readers[name] # NoReader =>
                    LET i == readers[name].element
                    IN  /\ i \in 1..Len(header.Elements)
                        /\ header.Elements[i].Name = name
                        /\ \A j \in 1..(i - 1) : header.Elements[j].Name # name
                        /\ readers[name].offset = header.offset + LayoutBefore(header.Elements, i)
        /\ DistinctNames(header.Elements) =>
                \A i \in 1..Len(header.Elements) : ChainedAt(header.Elements, i)

\* readers for two elements of different names, the second behind a body of bytes
SecondReaderReached ==
    /\ stage = "opened"
    /\ Len(header.Elements) = 2
    /\ DistinctNames(header.Elements)
    /\ readers[header.Elements[1].Name] # NoReader
    /\ readers[header.Elements[2].Name] # NoReader
    /\ readers[header.Elements[2].Name].offset > header.offset

\* the index of the last property of the element named tag, 0 when there is none
LastNamed(props, tag) ==
    LET named == {k \in 1..Len(props) : props[k].Name = tag}
    IN  IF named = {} THEN 0 ELSE CHOOSE k \in named : \A m \in named : m <= k

\* the bytes of the record buffer from off on, for a read issued at position at
\* that delivered n bytes
BufferBytes(at, n, off, size) ==
    [j \in 1..size |-> IF off + j <= n THEN ByteAt(at + off + j - 1) ELSE 0]

\* C6: when a read has decoded a record, a target field tagged p holds the
\* Size bytes of the record that start at the sum of the sizes of the
\* properties declared before p (the last p, when the name is declared twice),
\* whatever the order of the target's fields; properties no field binds are
\* skipped over, and a field that no property binds keeps its value.
DecoderLayout ==
    [][(last'.op \in ReadOps /\ last'.err = "nil") =>
            \A i \in 1..Len(target) :
                LET props == Elem.Properties
                    k == LastNamed(props, target[i].tag)
                IN  IF k = 0
                    THEN target'[i] = target[i]
                    ELSE target'[i].bytes =
                            BufferBytes(last'.at, last'.n, SumSizes(SubSeq(props, 1, k - 1)),
                                        props[k].Size)]_vars

\* a record was decoded into a target that leaves the first property unbound,
\* binds a later one and has a field no property binds
PartialTargetDecoded ==
    /\ ReadOk
    /\ ~last.fault
    /\ last.n = PointByteSize(Elem)
    /\ \E i \in 1..Len(target) : LastNamed(Elem.Properties, target[i].tag) = 0
    /\ \E i \in 1..Len(target) : LastNamed(Elem.Properties, target[i].tag) > 1
    /\ \A i \in 1..Len(target) : target[i].tag # Elem.Properties[1].Name

\* the target has a field bound to a property whose Go type is not the field's
Mismatched ==
    \E i \in 1..Len(target), k \in 1..Len(Elem.Properties) :
        /\ target[i].tag = Elem.Properties[k].Name
        /\ target[i].type # GoType(Elem.Properties[k].Type)

\* C7: when a target field is bound to a property of another scalar type, a
\* read that got its record completes and returns no error.
MismatchCompletes ==
    (/\ last.op \in ReadOps
     /\ last.n = PointByteSize(Elem)
     /\ ~last.fault
     /\ Mismatched) => last.err = "nil"

\* C8: when the source delivers fewer bytes than the record has, or the read
\* returns an I/O error, ReadNext returns an error, leaves the target as it
\* was and does not advance the cursor.
ShortReadFails ==
    [][(/\ last'.op = "ReadNext"
        /\ last'.n # -1
        /\ (last'.n < PointByteSize(Elem) \/ last'.fault)) =>
            /\ last'.err # "nil"
            /\ target' = target
            /\ reader'.pos = reader.pos]_vars

\* the source holds the line end_header with its newline
TerminatorLine == <<"\n">> \o headerEnd \o <<"\n">>
HasTerminatorLine(t) == Index(t, TerminatorLine) # -1

\* the position just after the newline of the first such line
AfterTerminator(t) == Index(t, TerminatorLine) + Len(TerminatorLine)

\* C9: for a source with the terminator line, however its bytes arrive in
\* chunks, readHeader neither fails nor aborts, and when it returns
\* body_offset is the position just after the newline of the terminator line
\* and the header text ends there.
HeaderEndsAtTerminator ==
    HasTerminatorLine(text) =>
        /\ stage \notin {"panic", "failed"}
        /\ stage = "parseHeader" =>
                /\ header.offset = AfterTerminator(text)
                /\ headerStr = Slice(text, 0, AfterTerminator(text))

\* the branch of parseHeader's loop a line takes
IsElementLine(line) ==
    MatchFormat(line) = <<>> /\ MatchComment(line) = <<>> /\ MatchElement(line) # <<>>
IsPropertyLine(line) ==
    MatchFormat(line) = <<>> /\ MatchComment(line) = <<>> /\ MatchElement(line) = <<>>
        /\ MatchProperty(line) # <<>>

\* a property line stands before the first element line
EarlyProperty(ls) ==
    \E i \in 1..Len(ls) :
        /\ IsPropertyLine(ls[i])
        /\ \A j \in 1..(i - 1) : ~IsElementLine(ls[j])

\* the lines without the property lines that stand before the first element line
RECURSIVE DropEarly(_)
DropEarly(ls) ==
    IF ls = <<>> \/ IsElementLine(ls[1]) THEN ls
    ELSE IF IsPropertyLine(ls[1]) THEN DropEarly(Tail(ls))
    ELSE <<ls[1]>> \o DropEarly(Tail(ls))

\* C10: when a property line stands before any element line, parsing runs to
\* completion and ignores it: the elements are those of the header without
\* that line.
EarlyPropertyIgnored ==
    (EarlyProperty(Split(headerStr)) /\ stage # "parseHeader") =>
        /\ stage # "panic"
        /\ header.Elements = ParseLines(DropEarly(Split(headerStr)), ParseStart(NoHeader)).Elements

====
